---------------------------- MODULE Spec2Model ----------------------------
(***************************************************************************)
(* Model of summarize.js: the transcript summariser.  The script reads     *)
(* transcript.txt, splits it into sentences, counts the significant words, *)
(* scores the sentences, and prints a summary, the key topics and the key  *)
(* takeaways.                                                              *)
(*                                                                         *)
(* A JavaScript string is modelled as a sequence of one-character strings, *)
(* so that trimming, splitting, lower-casing and truncation are computed   *)
(* character by character as the code does.                                *)
(***************************************************************************)
EXTENDS Integers, Sequences, FiniteSets, TLC

VARIABLES
  exists,        \* fs.existsSync("transcript.txt")
  raw,           \* contents of transcript.txt
  pc,            \* position of the script
  exitCode,      \* process exit code (0 while running or after a normal end)
  printed,       \* sections written to the console, in order
  text,          \* const text
  sentences,     \* const sentences
  freq,          \* const freq (a plain object used as a table)
  scored,        \* const scored (the array is sorted in place)
  summaryCount,  \* const summaryCount
  topSentences,  \* const topSentences
  topKeywords,   \* const topKeywords
  wordCount,     \* const wordCount
  takeaways      \* const takeaways

vars == <<exists, raw, pc, exitCode, printed, text, sentences, freq, scored,
          summaryCount, topSentences, topKeywords, wordCount, takeaways>>

---------------------------------------------------------------------------
(* Characters                                                              *)

LowerLetters ==
  {"a","b","c","d","e","f","g","h","i","j","k","l","m",
   "n","o","p","q","r","s","t","u","v","w","x","y","z"}

Digits == {"0","1","2","3","4","5","6","7","8","9"}

\* The regular expression class \s and the characters trim() removes,
\* restricted to the characters of the model's alphabet.
WhiteSpace == {" ", "\t", "\n", "\r"}

\* The class [.!?] of the sentence splitter.
Terminators == {".", "!", "?"}

IsSpace(c) == c \in WhiteSpace

ToLowerMap ==
  [c \in {"A","B","C","D","E","F","G","H","I","J","K","L","M",
          "N","O","P","Q","R","S","T","U","V","W","X","Y","Z"} |->
     CASE c = "A" -> "a" [] c = "B" -> "b" [] c = "C" -> "c" [] c = "D" -> "d"
       [] c = "E" -> "e" [] c = "F" -> "f" [] c = "G" -> "g" [] c = "H" -> "h"
       [] c = "I" -> "i" [] c = "J" -> "j" [] c = "K" -> "k" [] c = "L" -> "l"
       [] c = "M" -> "m" [] c = "N" -> "n" [] c = "O" -> "o" [] c = "P" -> "p"
       [] c = "Q" -> "q" [] c = "R" -> "r" [] c = "S" -> "s" [] c = "T" -> "t"
       [] c = "U" -> "u" [] c = "V" -> "v" [] c = "W" -> "w" [] c = "X" -> "x"
       [] c = "Y" -> "y" [] c = "Z" -> "z"]

\* String.prototype.toLowerCase
ToLowerCase(s) ==
  [i \in 1..Len(s) |-> IF s[i] \in DOMAIN ToLowerMap THEN ToLowerMap[s[i]] ELSE s[i]]

\* String.prototype.trim
Trim(s) ==
  LET n == Len(s) IN
  IF \A i \in 1..n : IsSpace(s[i]) THEN << >>
  ELSE LET first == CHOOSE i \in 1..n :
                      ~IsSpace(s[i]) /\ \A k \in 1..(i-1) : IsSpace(s[k])
           last  == CHOOSE i \in 1..n :
                      ~IsSpace(s[i]) /\ \A k \in (i+1)..n : IsSpace(s[k])
       IN SubSeq(s, first, last)

\* The first index k >= j of s that is not white space, or Len(s)+1.
SkipSpace(s, j) ==
  CHOOSE k \in j..(Len(s)+1) :
    /\ (k = Len(s)+1 \/ ~IsSpace(s[k]))
    /\ \A m \in j..(k-1) : IsSpace(s[m])

\* /\s+/ matches at the start of every maximal run of white space.
IsSpaceBreak(s, j) == IsSpace(s[j]) /\ (j = 1 \/ ~IsSpace(s[j-1]))

\* /(?<=[.!?])\s+/ matches at white space that directly follows a
\* terminator.
IsSentenceBreak(s, j) == j > 1 /\ IsSpace(s[j]) /\ s[j-1] \in Terminators

\* A match of the separator starts at index j of s.
IsBreak(sep, s, j) ==
  CASE sep = "space"    -> IsSpaceBreak(s, j)
    [] sep = "sentence" -> IsSentenceBreak(s, j)

\* String.prototype.split(sep) for the two separators, both of which match
\* a run of white space and take the whole run.  The pieces are what lies
\* between the matches, in order; a match at either end of s leaves an empty
\* piece there.
SplitAt(s, sep) ==
  LET n      == Len(s)
      brk    == SelectSeq([j \in 1..n |-> j], LAMBDA j : IsBreak(sep, s, j))
      m      == Len(brk)
      from(k) == IF k = 1 THEN 1 ELSE SkipSpace(s, brk[k-1])
      to(k)   == IF k = m + 1 THEN n ELSE brk[k] - 1
  IN [k \in 1..(m+1) |-> SubSeq(s, from(k), to(k))]

\* String.prototype.split(/\s+/)
SplitSpace(s) == SplitAt(s, "space")

\* replace(/\n+/g, " "): every maximal run of newlines becomes one space.
CollapseNewlines(s) ==
  LET marked == [i \in 1..Len(s) |->
                   IF s[i] # "\n" THEN s[i]
                   ELSE IF i > 1 /\ s[i-1] = "\n" THEN "drop" ELSE " "]
  IN SelectSeq(marked, LAMBDA c : c # "drop")

\* String.prototype.split(/(?<=[.!?])\s+/)
SplitSentences(s) == SplitAt(s, "sentence")

\* The shortest length a sentence must exceed to be kept.
MinSentenceLen == 20

\* The filter with >= in place of >.
M_KeepSentence(s) == Len(s) >= MinSentenceLen

\* .filter(s => s.length > 20)
KeepSentence(s) == Len(s) > MinSentenceLen

getSentences(t) ==
  LET pieces  == SplitSentences(CollapseNewlines(t))
      trimmed == [i \in 1..Len(pieces) |-> Trim(pieces[i])]
  IN SelectSeq(trimmed, KeepSentence)

---------------------------------------------------------------------------
(* Words                                                                   *)

\* The words ignored when counting.
stopWords == {
  <<"t","h","e">>, <<"a">>, <<"a","n">>, <<"a","n","d">>, <<"o","r">>, <<"b","u","t">>, <<"i","n">>, <<"o","n">>, <<"a","t">>, <<"t","o">>,
  <<"f","o","r">>, <<"o","f">>, <<"w","i","t","h">>, <<"b","y">>, <<"i","s">>, <<"a","m">>, <<"a","r","e">>, <<"w","a","s">>, <<"w","e","r","e">>,
  <<"b","e">>, <<"b","e","e","n">>, <<"b","e","i","n","g">>, <<"h","a","v","e">>, <<"h","a","s">>, <<"h","a","d">>, <<"d","o">>, <<"d","o","e","s">>, <<"d","i","d">>,
  <<"w","i","l","l">>, <<"w","o","u","l","d">>, <<"c","o","u","l","d">>, <<"s","h","o","u","l","d">>, <<"m","a","y">>, <<"m","i","g","h","t">>, <<"s","h","a","l","l">>, <<"c","a","n">>,
  <<"t","h","i","s">>, <<"t","h","a","t">>, <<"t","h","e","s","e">>, <<"t","h","o","s","e">>, <<"i","t">>, <<"i","t","s">>, <<"i">>, <<"y","o","u">>, <<"h","e">>,
  <<"s","h","e">>, <<"w","e">>, <<"t","h","e","y">>, <<"m","e">>, <<"h","i","m">>, <<"h","e","r">>, <<"u","s">>, <<"t","h","e","m">>, <<"m","y">>,
  <<"y","o","u","r">>, <<"h","i","s">>, <<"o","u","r">>, <<"t","h","e","i","r">>, <<"w","h","a","t">>, <<"w","h","i","c","h">>, <<"w","h","o">>, <<"w","h","o","m">>,
  <<"w","h","e","r","e">>, <<"w","h","e","n">>, <<"h","o","w">>, <<"w","h","y">>, <<"i","f">>, <<"t","h","e","n">>, <<"t","h","a","n">>, <<"s","o">>, <<"n","o","t">>,
  <<"n","o">>, <<"j","u","s","t">>, <<"a","l","s","o">>, <<"v","e","r","y">>, <<"r","e","a","l","l","y">>, <<"a","b","o","u","t">>, <<"u","p">>, <<"o","u","t">>,
  <<"a","l","l">>, <<"s","o","m","e">>, <<"a","n","y">>, <<"e","a","c","h">>, <<"f","r","o","m">>, <<"i","n","t","o">>, <<"o","v","e","r">>, <<"a","f","t","e","r">>,
  <<"b","e","f","o","r","e">>, <<"b","e","t","w","e","e","n">>, <<"u","n","d","e","r">>, <<"a","g","a","i","n">>, <<"t","h","e","r","e">>, <<"h","e","r","e">>, <<"m","o","r","e">>,
  <<"m","o","s","t">>, <<"o","t","h","e","r">>, <<"l","i","k","e">>, <<"k","n","o","w">>, <<"t","h","i","n","k">>, <<"g","o","i","n","g">>, <<"g","e","t">>, <<"g","o","t">>,
  <<"g","o">>, <<"c","o","m","e">>, <<"m","a","k","e">>, <<"t","a","k","e">>, <<"s","e","e">>, <<"s","a","y">>, <<"s","a","i","d">>, <<"o","n","e">>, <<"t","w","o">>,
  <<"t","h","i","n","g">>, <<"t","h","i","n","g","s">>, <<"w","a","y">>, <<"m","u","c","h">>, <<"m","a","n","y">>, <<"w","e","l","l">>, <<"e","v","e","n">>,
  <<"b","e","c","a","u","s","e">>, <<"t","h","r","o","u","g","h">>, <<"r","i","g","h","t">>, <<"d","o","n","t">>, <<"i","m">>, <<"t","h","a","t","s">>, <<"y","o","u","r","e">>,
  <<"i","v","e">>, <<"w","e","v","e">>, <<"t","h","e","y","r","e">>, <<"y","o","u","v","e">>, <<"g","o","n","n","a">>, <<"w","a","n","t">>, <<"s","o","m","e","t","h","i","n","g">>,
  <<"a","c","t","u","a","l","l","y">>, <<"p","e","o","p","l","e">>, <<"l","o","t">>, <<"k","i","n","d">>, <<"s","t","i","l","l">>, <<"b","a","c","k">>, <<"n","o","w">>, <<"n","e","w">>,
  <<"g","o","o","d">>, <<"f","i","r","s","t">>, <<"n","e","e","d">>, <<"l","o","o","k">>, <<"d","i","f","f","e","r","e","n","t">>, <<"a","r","o","u","n","d">>, <<"e","v","e","r","y">>,
  <<"d","o","w","n">>, <<"l","e","t">>, <<"p","u","t">>, <<"y","e","a","h">>, <<"o","k","a","y">>, <<"o","h">>, <<"u","m">>, <<"u","h">>, <<"h","e","y">>,
  <<"s","t","u","f","f">>, <<"b","a","s","i","c","a","l","l","y">>, <<"l","i","t","e","r","a","l","l","y">>
}

\* toLowerCase().replace(/[^a-z0-9\s]/g, "").split(/\s+/)
IsWordChar(c) == c \in LowerLetters \cup Digits \cup WhiteSpace

Tokenize(s) == SplitSpace(SelectSeq(ToLowerCase(s), IsWordChar))

\* The shortest length a word must exceed to be counted.
MinWordLen == 2

IsCounted(w) == Len(w) > MinWordLen /\ w \notin stopWords

---------------------------------------------------------------------------
(* JavaScript values held by the table and by a score.                     *)
(*   num n : the number n                                                  *)
(*   str n : the source text of the function Object followed by n ones     *)
(*   text  : any other string that is not a numeral                        *)
(*   fn    : the function Object, inherited from Object.prototype          *)
(*   undef : undefined                                                     *)

Num(n)    == [kind |-> "num", n |-> n]
Str(n)    == [kind |-> "str", n |-> n]
Text      == [kind |-> "text", n |-> 0]
Fn        == [kind |-> "fn", n |-> 0]
Undefined == [kind |-> "undef", n |-> 0]

\* The properties of Object.prototype whose names a token can spell
\* (lower-case letters and digits only).
PrototypeKeys == { <<"c","o","n","s","t","r","u","c","t","o","r">> }

\* A plain object {}: its own properties in insertion order.
EmptyObject == [keys |-> << >>, vals |-> << >>]

HasOwn(obj, w) == \E i \in 1..Len(obj.keys) : obj.keys[i] = w

\* obj[w]: the own property, else the one inherited from Object.prototype.
Get(obj, w) ==
  IF HasOwn(obj, w)
    THEN obj.vals[CHOOSE i \in 1..Len(obj.keys) : obj.keys[i] = w]
  ELSE IF w \in PrototypeKeys THEN Fn
  ELSE Undefined

\* obj[w] = v
Put(obj, w, v) ==
  IF HasOwn(obj, w)
    THEN LET i == CHOOSE k \in 1..Len(obj.keys) : obj.keys[k] = w
         IN [obj EXCEPT !.vals[i] = v]
  ELSE [keys |-> Append(obj.keys, w), vals |-> Append(obj.vals, v)]

\* v || 0
OrZero(v) == IF v.kind = "undef" \/ (v.kind = "num" /\ v.n = 0) THEN Num(0) ELSE v

\* a + b, for the operands the script adds: the sum of two numbers, else
\* the concatenation of the operands' strings (a function converts to its
\* source text).  A concatenation that starts with a number's digits and
\* goes on with the function's source text is not a numeral.
Plus(a, b) ==
  IF a.kind = "num" /\ b.kind = "num" THEN Num(a.n + b.n)
  ELSE IF a.kind = "fn" /\ b = Num(1) THEN Str(1)
  ELSE IF a.kind = "str" /\ b = Num(1) THEN Str(a.n + 1)
  ELSE Text

\* One pass of the loop body of getWordFrequency.
CountWord(obj, w) ==
  IF IsCounted(w) THEN Put(obj, w, Plus(OrZero(Get(obj, w)), Num(1))) ELSE obj

\* for (const w of words) ...: the loop body applied to words[lo..hi] in
\* order.  The range is halved, and the first half is computed before the
\* second half starts (the test on it is always true), which keeps the
\* evaluation shallow.
RECURSIVE CountWords(_, _, _, _)
CountWords(obj, words, lo, hi) ==
  IF lo > hi THEN obj
  ELSE IF lo = hi THEN CountWord(obj, words[lo])
  ELSE LET mid  == (lo + hi) \div 2
           left == CountWords(obj, words, lo, mid)
       IN IF Len(left.keys) >= 0 THEN CountWords(left, words, mid + 1, hi)
          ELSE left

getWordFrequency(t) ==
  LET words == Tokenize(t) IN CountWords(EmptyObject, words, 1, Len(words))

---------------------------------------------------------------------------
(* Scores.  A score is a double; the model keeps it exactly, as the        *)
(* fraction num/den, or as NaN.  1 + 0.2 / (1 + index * 0.1) is the        *)
(* fraction (12 + index) / (10 + index).                                   *)

NaN == [nan |-> TRUE, num |-> 0, den |-> 1]

\* The loop of scoreSentences: score += freq[w] || 0
RECURSIVE SumWords(_, _, _, _, _)
SumWords(acc, obj, words, lo, hi) ==
  IF lo > hi THEN acc
  ELSE IF lo = hi THEN Plus(acc, OrZero(Get(obj, words[lo])))
  ELSE LET mid  == (lo + hi) \div 2
           left == SumWords(acc, obj, words, lo, mid)
       IN IF left.n >= 0 THEN SumWords(left, obj, words, mid + 1, hi)
          ELSE left

\* The body of the map callback up to the boost.
RawScore(sentence, obj) ==
  LET words == Tokenize(sentence) IN SumWords(Num(0), obj, words, 1, Len(words))

\* score *= 1 + 0.2 / (1 + index * 0.1): a string that is no numeral
\* converts to NaN.
Boost(acc, index) ==
  IF acc.kind = "num"
    THEN [nan |-> FALSE, num |-> acc.n * (12 + index), den |-> 10 + index]
  ELSE NaN

scoreSentences(ss, obj) ==
  [i \in 1..Len(ss) |->
     [sentence |-> ss[i],
      score    |-> Boost(RawScore(ss[i], obj), i - 1),
      index    |-> i - 1]]

---------------------------------------------------------------------------
(* Property keys that are array indices                                    *)

DigitVal ==
  [c \in Digits |->
     CASE c = "0" -> 0 [] c = "1" -> 1 [] c = "2" -> 2 [] c = "3" -> 3
       [] c = "4" -> 4 [] c = "5" -> 5 [] c = "6" -> 6 [] c = "7" -> 7
       [] c = "8" -> 8 [] c = "9" -> 9]

\* a < b for two numerals of the same length
LexLess(a, b) ==
  \E i \in 1..Len(a) :
    /\ DigitVal[a[i]] < DigitVal[b[i]]
    /\ \A k \in 1..(i-1) : a[k] = b[k]

\* a < b for two numerals without leading zeros
NumLess(a, b) == Len(a) < Len(b) \/ (Len(a) = Len(b) /\ LexLess(a, b))

\* The largest array index, 2^32 - 2.
MaxArrayIndex == <<"4","2","9","4","9","6","7","2","9","4">>

\* A property key that is an array index: the canonical numeral of an
\* integer in 0 .. 2^32 - 2.  An object lists these keys first.
IsArrayIndex(w) ==
  /\ Len(w) > 0
  /\ \A i \in 1..Len(w) : w[i] \in Digits
  /\ (Len(w) = 1 \/ w[1] # "0")
  /\ (w = MaxArrayIndex \/ NumLess(w, MaxArrayIndex))

---------------------------------------------------------------------------
(* Array.prototype.sort.  The sort is stable (ECMAScript 2019).  When the   *)
(* comparator is not consistent (it answers NaN, which sort reads as 0,    *)
(* for an element while it orders other elements) the order of the result  *)
(* is implementation-defined: any permutation of the array.                *)

Sign(n) == IF n > 0 THEN 1 ELSE IF n < 0 THEN -1 ELSE 0

\* (a, b) => b.score - a.score
ByScoreDesc(a, b) ==
  IF a.score.nan \/ b.score.nan THEN 0
  ELSE Sign(b.score.num * a.score.den - a.score.num * b.score.den)

\* (a, b) => a.index - b.index
ByIndexAsc(a, b) == Sign(a.index - b.index)

\* (a, b) => b[1] - a[1]; a count that is a string converts to NaN
ByCountDesc(a, b) ==
  IF a.count.kind # "num" \/ b.count.kind # "num" THEN 0
  ELSE Sign(b.count.n - a.count.n)

\* The ascending numeric order in which an object lists its index keys.
ByKeyAsc(a, b) ==
  IF NumLess(a.word, b.word) THEN -1
  ELSE IF NumLess(b.word, a.word) THEN 1 ELSE 0

\* The comparator of each sort, by name.
Compare(order, a, b) ==
  CASE order = "score" -> ByScoreDesc(a, b)
    [] order = "index" -> ByIndexAsc(a, b)
    [] order = "count" -> ByCountDesc(a, b)
    [] order = "key"   -> ByKeyAsc(a, b)

\* The comparator answers NaN for x against every element.
Unordered(order, x) ==
  CASE order = "score" -> x.score.nan
    [] order = "count" -> x.count.kind # "num"
    [] OTHER -> FALSE

StableSort(s, order) ==
  LET n    == Len(s)
      rank == [i \in 1..n |->
                 1 + Cardinality({j \in 1..n :
                       \/ Compare(order, s[j], s[i]) < 0
                       \/ Compare(order, s[j], s[i]) = 0 /\ j < i})]
  IN [k \in 1..n |-> s[CHOOSE i \in 1..n : rank[i] = k]]

AnyOrder(s) == {[k \in 1..Len(s) |-> s[p[k]]] : p \in Permutations(1..Len(s))}

\* The outcomes of s.sort(comparator).
SortOutcomes(s, order) ==
  IF \A j \in 1..Len(s) : Unordered(order, s[j]) =>
        \A i, k \in 1..Len(s) : Compare(order, s[i], s[k]) = 0
    THEN {StableSort(s, order)}
  ELSE AnyOrder(s)

\* Array.prototype.slice(0, n)
Slice(s, n) == SubSeq(s, 1, IF n < Len(s) THEN n ELSE Len(s))

---------------------------------------------------------------------------
(* The summary                                                             *)

SummaryMin == 3
SummaryMax == 10
\* Math.floor(n * 0.1) for an array length n
Tenth(n) == n \div 10

Max2(a, b) == IF a > b THEN a ELSE b
Min2(a, b) == IF a < b THEN a ELSE b

\* The count without its upper limit.
M_SummaryCountOf(n) == Max2(SummaryMin, Tenth(n))

\* Math.min(Math.max(3, Math.floor(sentences.length * 0.1)), 10)
SummaryCountOf(n) == Min2(Max2(SummaryMin, Tenth(n)), SummaryMax)

\* The summary without the second sort.
M_SummaryOf(sorted, count) ==
  LET top == Slice(sorted, count)
  IN [i \in 1..Len(top) |-> top[i].sentence]

\* .slice(0, summaryCount).sort((a, b) => a.index - b.index).map(s => s.sentence)
SummaryOf(sorted, count) ==
  LET top == StableSort(Slice(sorted, count), "index")
  IN [i \in 1..Len(top) |-> top[i].sentence]

---------------------------------------------------------------------------
(* The key topics                                                          *)

EntryIsIndex(e) == IsArrayIndex(e.word)
EntryIsName(e)  == ~IsArrayIndex(e.word)
\* Object.entries(obj): the array-index keys in ascending numeric order,
\* then the other keys in insertion order.
Entries(obj) ==
  LET all == [i \in 1..Len(obj.keys) |->
                [word |-> obj.keys[i], count |-> obj.vals[i]]]
  IN StableSort(SelectSeq(all, EntryIsIndex), "key")
       \o SelectSeq(all, EntryIsName)

MaxKeywords == 8

\* .slice(0, 8).map(([word]) => word)
KeywordsOf(sorted) ==
  LET top == Slice(sorted, MaxKeywords)
  IN [i \in 1..Len(top) |-> top[i].word]

---------------------------------------------------------------------------
(* The key takeaways                                                       *)

MaxTakeaways == 5
TakeawayMax  == 120
TakeawayKeep == 117
Ellipsis     == <<".",".",".">>

\* The truncation with >= in place of >.
M_Truncate(t) ==
  IF Len(t) >= TakeawayMax THEN SubSeq(t, 1, TakeawayKeep) \o Ellipsis ELSE t

\* if (t.length > 120) t = t.substring(0, 117) + "..."
Truncate(t) ==
  IF Len(t) > TakeawayMax THEN SubSeq(t, 1, TakeawayKeep) \o Ellipsis ELSE t

\* .slice(0, 5).map(s => ...)
TakeawaysOf(sorted) ==
  LET top == Slice(sorted, MaxTakeaways)
  IN [i \in 1..Len(top) |-> Truncate(top[i].sentence)]

---------------------------------------------------------------------------
(* The transcripts the model runs the script on.                           *)

RECURSIVE Concat(_)
Concat(ss) == IF ss = << >> THEN << >> ELSE Head(ss) \o Concat(Tail(ss))

\* Sentences of graded weight: many counted words, a few, none.
RankSentences ==
  << (* "Rust makes rust code fast." *)
       <<"R","u","s","t"," ","m","a","k","e","s"," ","r","u","s","t"," ","c","o","d","e"," ","f","a","s","t",".">>,
     (* "We like code that is fast." *)
       <<"W","e"," ","l","i","k","e"," ","c","o","d","e"," ","t","h","a","t"," ","i","s"," ","f","a","s","t",".">>,
     (* "It is what it is, you see." *)
       <<"I","t"," ","i","s"," ","w","h","a","t"," ","i","t"," ","i","s",","," ","y","o","u"," ","s","e","e",".">> >>

MaxSentences == 6

\* Up to MaxSentences of the graded sentences, each followed by a space.
RankTexts ==
  UNION { { Concat([i \in 1..n |-> RankSentences[c[i]] \o <<" ">>]) :
              c \in [1..n -> 1..Len(RankSentences)] } : n \in 0..MaxSentences }

MaxOver == 2

\* A sentence of n characters: words of four letters and a full stop.
LongSentence(n) ==
  [i \in 1..n |-> IF i = n THEN "." ELSE IF i % 5 = 0 THEN " " ELSE "a"]

EdgePieces ==
  { <<" "," "," ">>,
    <<"\n","\n">>,
    <<"s","h","o","r","t"," ","o","n","e","."," ">>,
    (* "Mr. Smith\tgoes to town now!  " *)
       <<"M","r","."," ","S","m","i","t","h","\t","g","o","e","s"," ","t","o"," ","t","o","w","n"," ","n","o","w","!"," "," ">>,
    (* "alpha 200 100 007 beta 12?\n" *)
       <<"a","l","p","h","a"," ","2","0","0"," ","1","0","0"," ","0","0","7"," ","b","e","t","a"," ","1","2","?","\n">>,
    (* "this one has no terminator at all" *)
       <<"t","h","i","s"," ","o","n","e"," ","h","a","s"," ","n","o"," ","t","e","r","m","i","n","a","t","o","r"," ","a","t"," ","a","l","l">>,
    (* "abcdefghij klmnopqr. " *)
       <<"a","b","c","d","e","f","g","h","i","j"," ","k","l","m","n","o","p","q","r","."," ">>,
    (* "abcdefghij klmnopqrs. " *)
       <<"a","b","c","d","e","f","g","h","i","j"," ","k","l","m","n","o","p","q","r","s","."," ">>,
    (* "v1.2 is out?yes it really is great! " *)
       <<"v","1",".","2"," ","i","s"," ","o","u","t","?","y","e","s"," ","i","t"," ","r","e","a","l","l","y"," ","i","s"," ","g","r","e","a","t","!"," ">>,
    (* "gamma delta kappa zeta theta iota sigma omega lambda tau. " *)
       <<"g","a","m","m","a"," ","d","e","l","t","a"," ","k","a","p","p","a"," ","z","e","t","a"," ","t","h","e","t","a"," ","i","o","t","a"," ","s","i","g","m","a"," ","o","m","e","g","a"," ","l","a","m","b","d","a"," ","t","a","u","."," ">>,
    (* "swift code\n\n\nruns very quick today.\r\n" *)
       <<"s","w","i","f","t"," ","c","o","d","e","\n","\n","\n","r","u","n","s"," ","v","e","r","y"," ","q","u","i","c","k"," ","t","o","d","a","y",".","\r","\n">>,
    (* "Hello, WORLD; hello-world (again) & again... " *)
       <<"H","e","l","l","o",","," ","W","O","R","L","D",";"," ","h","e","l","l","o","-","w","o","r","l","d"," ","(","a","g","a","i","n",")"," ","&"," ","a","g","a","i","n",".",".","."," ">> }
  \cup { LongSentence(n) \o <<" ">> : n \in (TakeawayMax - 1)..(TakeawayMax + MaxOver) }

MaxEdgePieces == 2

EdgeTexts ==
  UNION { { Concat(c) : c \in [1..n -> EdgePieces] } : n \in 0..MaxEdgePieces }

\* Transcripts that use the word "constructor".
CtorTexts ==
  { (* "It is what it is, you see. The constructor is here now. It is what it is, you see. It is what it is, you see." *)
       <<"I","t"," ","i","s"," ","w","h","a","t"," ","i","t"," ","i","s",","," ","y","o","u"," ","s","e","e","."," ","T","h","e"," ","c","o","n","s","t","r","u","c","t","o","r"," ","i","s"," ","h","e","r","e"," ","n","o","w","."," ","I","t"," ","i","s"," ","w","h","a","t"," ","i","t"," ","i","s",","," ","y","o","u"," ","s","e","e","."," ","I","t"," ","i","s"," ","w","h","a","t"," ","i","t"," ","i","s",","," ","y","o","u"," ","s","e","e",".">>,
    (* "Rust rust rust rust rust. The constructor is here now. It is what it is, you see." *)
       <<"R","u","s","t"," ","r","u","s","t"," ","r","u","s","t"," ","r","u","s","t"," ","r","u","s","t","."," ","T","h","e"," ","c","o","n","s","t","r","u","c","t","o","r"," ","i","s"," ","h","e","r","e"," ","n","o","w","."," ","I","t"," ","i","s"," ","w","h","a","t"," ","i","t"," ","i","s",","," ","y","o","u"," ","s","e","e",".">>,
    (* "Rust rust code is here now. The constructor is here now." *)
       <<"R","u","s","t"," ","r","u","s","t"," ","c","o","d","e"," ","i","s"," ","h","e","r","e"," ","n","o","w","."," ","T","h","e"," ","c","o","n","s","t","r","u","c","t","o","r"," ","i","s"," ","h","e","r","e"," ","n","o","w",".">>,
    (* "constructor constructor is here." *)
       <<"c","o","n","s","t","r","u","c","t","o","r"," ","c","o","n","s","t","r","u","c","t","o","r"," ","i","s"," ","h","e","r","e",".">> }

MaxTens == 15

LongUnit == (* "Rustaceans everywhere. " *)
       <<"R","u","s","t","a","c","e","a","n","s"," ","e","v","e","r","y","w","h","e","r","e","."," ">>

\* n copies of one sentence
LongText(n) ==
  [i \in 1..(n * Len(LongUnit)) |-> LongUnit[((i - 1) % Len(LongUnit)) + 1]]

\* Sentence counts just below and just at every other multiple of ten:
\* 19, 20, 39, 40, ..., 99, 100, ...
LongTexts == { LongText(10 * k + 9 * (k % 2)) : k \in 1..MaxTens }

ShortInputs == RankTexts \cup EdgeTexts \cup CtorTexts

Inputs == ShortInputs \cup LongTexts

---------------------------------------------------------------------------
(* The script                                                              *)

\* The state before the first statement: transcript.txt is missing, or it
\* holds one of the transcripts of the set files.
InitWith(files) ==
  /\ exists \in BOOLEAN
  /\ raw \in (IF exists THEN files ELSE {<< >>})
  /\ pc = "start"
  /\ exitCode = 0
  /\ printed = << >>
  /\ text = << >>
  /\ sentences = << >>
  /\ freq = EmptyObject
  /\ scored = << >>
  /\ summaryCount = 0
  /\ topSentences = << >>
  /\ topKeywords = << >>
  /\ wordCount = 0
  /\ takeaways = << >>

Init == InitWith(Inputs)

\* Only the transcripts of a few sentences.
InitShort == InitWith(ShortInputs)

\* The text read without trim().
M_ReadText(contents) == contents

\* fs.readFileSync("transcript.txt", "utf-8").trim()
ReadText(contents) == Trim(contents)

\* if (!text): the empty string is the only falsy string
IsEmptyText(t) == t = << >>

Steps == {"ExitNoFile", "ExitEmpty", "ReadTranscript", "Segment", "Analyze",
          "Score", "SelectSummary", "SelectKeywords", "PrintReport",
          "PrintTakeaways"}

\* What lets the script take a step: its position, the two tests at its
\* start, and a result for each sort.
Ready(step) ==
  CASE step = "ExitNoFile"     -> pc = "start" /\ ~exists
    [] step = "ExitEmpty"      -> pc = "start" /\ exists /\ IsEmptyText(ReadText(raw))
    [] step = "ReadTranscript" -> pc = "start" /\ exists /\ ~IsEmptyText(ReadText(raw))
    [] step = "Segment"        -> pc = "read"
    [] step = "Analyze"        -> pc = "segmented"
    [] step = "Score"          -> pc = "analyzed"
    [] step = "SelectSummary"  ->
         pc = "scored" /\ SortOutcomes(scored, "score") # {}
    [] step = "SelectKeywords" ->
         pc = "summarized" /\ SortOutcomes(Entries(freq), "count") # {}
    [] step = "PrintReport"    -> pc = "keywords"
    [] step = "PrintTakeaways" ->
         pc = "reported" /\ SortOutcomes(scored, "score") # {}

\* if (!fs.existsSync("transcript.txt")) { ...; process.exit(1); }
ExitNoFile ==
  /\ Ready("ExitNoFile")
  /\ pc' = "exited"
  /\ exitCode' = 1
  /\ printed' = Append(printed, "ERROR: No transcript.txt file found!")
  /\ UNCHANGED <<exists, raw, text, sentences, freq, scored, summaryCount,
                 topSentences, topKeywords, wordCount, takeaways>>

\* const text = ...trim(); if (!text) { ...; process.exit(1); }
ExitEmpty ==
  /\ Ready("ExitEmpty")
  /\ text' = ReadText(raw)
  /\ pc' = "exited"
  /\ exitCode' = 1
  /\ printed' = Append(printed, "ERROR: transcript.txt is empty!")
  /\ UNCHANGED <<exists, raw, sentences, freq, scored, summaryCount,
                 topSentences, topKeywords, wordCount, takeaways>>

\* const text = ...trim(); the text is not empty
ReadTranscript ==
  /\ Ready("ReadTranscript")
  /\ text' = ReadText(raw)
  /\ pc' = "read"
  /\ UNCHANGED <<exists, raw, exitCode, printed, sentences, freq, scored,
                 summaryCount, topSentences, topKeywords, wordCount, takeaways>>

\* const sentences = getSentences(text);
Segment ==
  /\ Ready("Segment")
  /\ sentences' = getSentences(text)
  /\ pc' = "segmented"
  /\ UNCHANGED <<exists, raw, exitCode, printed, text, freq, scored,
                 summaryCount, topSentences, topKeywords, wordCount, takeaways>>

\* const freq = getWordFrequency(text);
Analyze ==
  /\ Ready("Analyze")
  /\ freq' = getWordFrequency(text)
  /\ pc' = "analyzed"
  /\ UNCHANGED <<exists, raw, exitCode, printed, text, sentences, scored,
                 summaryCount, topSentences, topKeywords, wordCount, takeaways>>

\* const scored = scoreSentences(sentences, freq);
Score ==
  /\ Ready("Score")
  /\ scored' = scoreSentences(sentences, freq)
  /\ pc' = "scored"
  /\ UNCHANGED <<exists, raw, exitCode, printed, text, sentences, freq,
                 summaryCount, topSentences, topKeywords, wordCount, takeaways>>

\* const summaryCount = ...; const topSentences = scored.sort(...)...
\* sort works in place: scored itself is left in the sorted order.
SelectSummary ==
  /\ Ready("SelectSummary")
  /\ summaryCount' = SummaryCountOf(Len(sentences))
  /\ \E sorted \in SortOutcomes(scored, "score") :
       /\ scored' = sorted
       /\ topSentences' = SummaryOf(sorted, summaryCount')
  /\ pc' = "summarized"
  /\ UNCHANGED <<exists, raw, exitCode, printed, text, sentences, freq,
                 topKeywords, wordCount, takeaways>>

\* const topKeywords = Object.entries(freq).sort(...).slice(0, 8).map(...)
SelectKeywords ==
  /\ Ready("SelectKeywords")
  /\ \E sorted \in SortOutcomes(Entries(freq), "count") :
       topKeywords' = KeywordsOf(sorted)
  /\ pc' = "keywords"
  /\ UNCHANGED <<exists, raw, exitCode, printed, text, sentences, freq, scored,
                 summaryCount, topSentences, wordCount, takeaways>>

\* const wordCount = text.split(/\s+/).length; the report down to the topics
PrintReport ==
  /\ Ready("PrintReport")
  /\ wordCount' = Len(SplitSpace(text))
  /\ printed' = printed \o << "Word count", "--- SUMMARY ---", "--- KEY TOPICS ---" >>
  /\ pc' = "reported"
  /\ UNCHANGED <<exists, raw, exitCode, text, sentences, freq, scored,
                 summaryCount, topSentences, topKeywords, takeaways>>

\* const takeaways = scored.sort(...).slice(0, 5).map(...); they are printed
PrintTakeaways ==
  /\ Ready("PrintTakeaways")
  /\ \E sorted \in SortOutcomes(scored, "score") :
       /\ scored' = sorted
       /\ takeaways' = TakeawaysOf(sorted)
  /\ printed' = Append(printed, "--- KEY TAKEAWAYS ---")
  /\ pc' = "done"
  /\ UNCHANGED <<exists, raw, exitCode, text, sentences, freq, summaryCount,
                 topSentences, topKeywords, wordCount>>

Next ==
  \/ ExitNoFile
  \/ ExitEmpty
  \/ ReadTranscript
  \/ Segment
  \/ Analyze
  \/ Score
  \/ SelectSummary
  \/ SelectKeywords
  \/ PrintReport
  \/ PrintTakeaways

Spec == Init /\ [][Next]_vars

SpecShort == InitShort /\ [][Next]_vars

---------------------------------------------------------------------------
(* Properties                                                              *)

\* The summary has been selected.
AfterSummary == pc \in {"summarized", "keywords", "reported", "done"}

\* The scorer's output, in the order the scorer produced it.
ScorerOutput == scoreSentences(sentences, freq)

\* a >= b, a = b on doubles: a comparison with NaN is false.
ScoreGeq(a, b) == ~a.nan /\ ~b.nan /\ a.num * b.den >= b.num * a.den
ScoreEq(a, b)  == ~a.nan /\ ~b.nan /\ a.num * b.den = b.num * a.den

\* The exact scores stand for the doubles the script computes as long as no
\* two sentences at different positions have the same non-zero exact score
\* (two such doubles may round apart).
ExactScoresSuffice ==
  pc = "scored" =>
    \A i, j \in 1..Len(scored) :
      (i < j /\ ScoreEq(scored[i].score, scored[j].score))
        => scored[i].score.num = 0

\* C1: with T sentences, the summary holds min(T, clamp(floor(T/10), 3, 10))
\* sentences.
C1_SummarySize ==
  AfterSummary =>
    LET T       == Len(sentences)
        tenth   == T \div 10
        clamped == IF tenth < 3 THEN 3 ELSE IF tenth > 10 THEN 10 ELSE tenth
    IN Len(topSentences) = (IF T < clamped THEN T ELSE clamped)

\* C1 witness: a transcript of more than a hundred sentences was summarised
\* in ten.
C1_Witness ==
  AfterSummary /\ Len(sentences) > 100 /\ Len(topSentences) = 10

\* The sentences picked for the summary, in the order of the ranking.
Picked == Slice(scored, summaryCount)

\* The position in Picked of the sentence with the j-th smallest original
\* index among the picked ones.
PickedAt(j) ==
  CHOOSE a \in 1..Len(Picked) :
    Cardinality({b \in 1..Len(Picked) : Picked[b].index < Picked[a].index}) = j - 1

\* C3: the summary lists the picked sentences in strictly ascending order of
\* their original index, whatever their scores are.
C3_SummaryInIndexOrder ==
  pc = "summarized" =>
    /\ Len(topSentences) = Len(Picked)
    /\ \A j \in 1..Len(Picked) : topSentences[j] = Picked[PickedAt(j)].sentence
    /\ \A j \in 1..(Len(Picked) - 1) :
         Picked[PickedAt(j)].index < Picked[PickedAt(j+1)].index

\* C3 witness: a summary whose sentences were ranked in another order than
\* the order of the text.
C3_Witness ==
  /\ pc = "summarized"
  /\ \E a, b \in 1..Len(Picked) : a < b /\ Picked[a].index > Picked[b].index

\* C5: a takeaway of a sentence longer than 120 characters is its first 117
\* characters and the ellipsis, 120 characters in all; a shorter sentence is
\* printed unchanged; no takeaway is longer than 120 characters.
C5_TakeawayTruncation ==
  pc = "done" =>
    /\ Len(takeaways) <= Len(scored)
    /\ \A i \in 1..Len(takeaways) :
         LET src == scored[i].sentence IN
         /\ Len(takeaways[i]) <= 120
         /\ Len(src) <= 120 => takeaways[i] = src
         /\ Len(src) > 120 =>
              /\ Len(takeaways[i]) = 120
              /\ SubSeq(takeaways[i], 1, 117) = SubSeq(src, 1, 117)
              /\ SubSeq(takeaways[i], 118, 120) = <<".", ".", ".">>

\* C5 witness: a takeaway of a sentence of 121 characters, next to one of a
\* sentence of exactly 120.
C5_Witness ==
  /\ pc = "done"
  /\ \E i, j \in 1..Len(takeaways) :
       Len(scored[i].sentence) = 121 /\ Len(scored[j].sentence) = 120

\* Nothing but white space.
IsBlank(s) == \A i \in 1..Len(s) : s[i] \in WhiteSpace

ReportSections == {"Word count", "--- SUMMARY ---", "--- KEY TOPICS ---",
                   "--- KEY TAKEAWAYS ---"}

\* C8: with a transcript file present, the run fails exactly when the text
\* is blank, before anything is computed or reported; every other text runs
\* through to the end (while the script has not ended it can take a step),
\* also with no sentence or with no counted word.
C8_OnlyEmptyInputIsFatal ==
  exists =>
    /\ pc = "exited" =>
         /\ IsBlank(raw) /\ exitCode = 1
         /\ sentences = << >> /\ freq = EmptyObject /\ scored = << >>
         /\ topSentences = << >> /\ topKeywords = << >> /\ takeaways = << >>
         /\ \A i \in 1..Len(printed) : printed[i] \notin ReportSections
    /\ pc \notin {"start", "exited"} => ~IsBlank(raw)
    /\ pc \notin {"done", "exited"} => \E step \in Steps : Ready(step)
    /\ pc = "done" =>
         /\ exitCode = 0
         /\ \A s \in ReportSections : \E i \in 1..Len(printed) : printed[i] = s
         /\ sentences = << >> => topSentences = << >> /\ takeaways = << >>
         /\ freq.keys = << >> <=> topKeywords = << >>

\* C8 witness: a transcript of white space only ended the run.
C8_Witness == exists /\ pc = "exited" /\ raw # << >>

\* C8, second case: a text without any sentence ran to the end and still
\* has key topics.
C8_NoSentencesReached ==
  pc = "done" /\ sentences = << >> /\ topKeywords # << >>

\* The sentences of the transcript, each taken once.
SentenceSet == {sentences[i] : i \in 1..Len(sentences)}

\* Segmenting s1 + " " + s2 gives s1 and s2 back.
RoundTrips(s1, s2) == getSentences(s1 \o <<" ">> \o s2) = <<s1, s2>>

\* piece lies in t from position p on.
OccursAt(t, piece, p) ==
  /\ p + Len(piece) - 1 <= Len(t)
  /\ SubSeq(t, p, p + Len(piece) - 1) = piece

\* The pieces ss[i..] lie in t from position p on, one after the other.
RECURSIVE InOrderFrom(_, _, _, _)
InOrderFrom(t, ss, i, p) ==
  \/ i > Len(ss)
  \/ \E q \in p..Len(t) :
       /\ OccursAt(t, ss[i], q)
       /\ \A r \in p..(q-1) : ~OccursAt(t, ss[i], r)
       /\ InOrderFrom(t, ss, i + 1, q + Len(ss[i]))

\* C10 as stated: any two sentences the segmenter produced round-trip.
C10_Original ==
  pc = "segmented" => \A s1, s2 \in SentenceSet : RoundTrips(s1, s2)

\* C10, amended: two sentences the segmenter produced round-trip when the
\* first one ends with a terminator; and every sentence is trimmed, longer
\* than 20 characters, and the sentences lie in the text (its newlines
\* collapsed) in the order of the sequence.
C10_RoundTrip ==
  pc = "segmented" =>
    /\ \A s1, s2 \in SentenceSet :
         s1[Len(s1)] \in {".", "!", "?"} => RoundTrips(s1, s2)
    /\ \A i \in 1..Len(sentences) :
         /\ Len(sentences[i]) > 20
         /\ sentences[i][1] \notin WhiteSpace
         /\ sentences[i][Len(sentences[i])] \notin WhiteSpace
    /\ InOrderFrom(CollapseNewlines(text), sentences, 1, 1)

\* C10 witness: two different sentences of one transcript, the first ending
\* with a terminator, came back from the segmenter unchanged.
C10_Witness ==
  /\ pc = "segmented"
  /\ \E s1, s2 \in SentenceSet :
       s1 # s2 /\ s1[Len(s1)] \in {".", "!", "?"} /\ RoundTrips(s1, s2)

---------------------------------------------------------------------------
(* Claims the script does not meet.                                        *)

\* C9: the two selections leave the scorer's output as it was, in the order
\* of the text.
C9_SelectionsLeaveScoredUnchanged ==
  AfterSummary => scored = ScorerOutput

\* C2: every sentence of the summary scores at least as high as every
\* sentence left out, and of two sentences with the same score the one with
\* the lower index is picked first; when all scores are 0 the summary is the
\* first summaryCount sentences.
C2_SummaryIsTopOfRanking ==
  pc = "summarized" =>
    LET all  == {ScorerOutput[i] : i \in 1..Len(sentences)}
        in   == {Picked[i] : i \in 1..Len(Picked)}
        out  == all \ in
    IN /\ \A a \in in, b \in out :
            /\ ScoreGeq(a.score, b.score)
            /\ ScoreEq(a.score, b.score) => a.index < b.index
       /\ (\A a \in all : a.score.num = 0) =>
            topSentences = SubSeq(sentences, 1, Len(topSentences))

\* The sentences the takeaways were made of.
TakeawaySources == Slice(scored, Len(takeaways))

\* C4: the takeaways are made of the first min(5, T) sentences of the stable
\* descending ranking of the scorer's output, and stand in non-increasing
\* order of score, ties in ascending order of index.
C4_TakeawaysInScoreOrder ==
  pc = "done" =>
    LET T    == Len(sentences)
        src  == TakeawaySources
        all  == {ScorerOutput[i] : i \in 1..T}
        out  == all \ {src[i] : i \in 1..Len(src)}
    IN /\ Len(takeaways) = (IF T < 5 THEN T ELSE 5)
       /\ \A i \in 1..Len(src) : src[i] \in all
       /\ \A i, j \in 1..Len(src) :
            i < j => /\ ScoreGeq(src[i].score, src[j].score)
                     /\ ScoreEq(src[i].score, src[j].score)
                          => src[i].index < src[j].index
       /\ \A i \in 1..Len(src) : \A b \in out :
            /\ ScoreGeq(src[i].score, b.score)
            /\ ScoreEq(src[i].score, b.score) => src[i].index < b.index

\* The words of the text, and for a word how often and where first it
\* stands in the text.
TextWords        == Tokenize(text)
CountedWords     == {TextWords[i] : i \in {k \in 1..Len(TextWords) : IsCounted(TextWords[k])}}
Occurrences(w)   == Cardinality({i \in 1..Len(TextWords) : TextWords[i] = w})
FirstSeen(w)     == CHOOSE i \in 1..Len(TextWords) :
                      TextWords[i] = w /\ \A k \in 1..(i-1) : TextWords[k] # w

\* C6: the key topics are min(8, number of counted words) words, in
\* descending order of their number of occurrences, words that occur equally
\* often in the order in which the text first has them.
C6_KeywordOrder ==
  pc = "keywords" =>
    /\ Len(topKeywords) =
         (IF Cardinality(CountedWords) < 8 THEN Cardinality(CountedWords) ELSE 8)
    /\ \A i \in 1..Len(topKeywords) : topKeywords[i] \in CountedWords
    /\ \A i, j \in 1..Len(topKeywords) :
         i < j =>
           \/ Occurrences(topKeywords[i]) > Occurrences(topKeywords[j])
           \/ /\ Occurrences(topKeywords[i]) = Occurrences(topKeywords[j])
              /\ FirstSeen(topKeywords[i]) < FirstSeen(topKeywords[j])

\* C7: the table maps every counted word, and nothing else, to the number
\* of times the word stands in the text; every key is longer than 2 and no
\* stop word; the values add up to the number of counted tokens.
C7_TableCountsOccurrences ==
  pc = "analyzed" =>
    /\ {freq.keys[i] : i \in 1..Len(freq.keys)} = CountedWords
    /\ \A i \in 1..Len(freq.keys) :
         /\ Len(freq.keys[i]) > 2
         /\ freq.keys[i] \notin stopWords
         /\ freq.vals[i] = Num(Occurrences(freq.keys[i]))

=============================================================================
